---- MODULE Spec2Model ----
(***************************************************************************)
(* The two icon generators of arbor: create_tree_icon.py (the tree icon)   *)
(* and apps/desktop/src-tauri/icons/create_icon.py (the "A" badge icon).   *)
(* Each script is a process that executes its statements in program order; *)
(* a canvas is the list of shapes painted on its background, in paint      *)
(* order, and a pixel shows the fill of the last shape that covers it.     *)
(***************************************************************************)
EXTENDS Integers, Sequences, FiniteSets, TLC

VARIABLES
    font,    \* environment: state of /System/Library/Fonts/Helvetica.ttc
    fs,      \* environment: content of each output path
    tpc,     \* tree generator: position in the script
    timg,    \* tree generator: the canvas `img`
    tout,    \* tree generator: lines printed by the current run
    tlog,    \* tree generator: steps taken by the current run
    truns,   \* tree generator: number of runs started
    thist,   \* tree generator: what the last two completed saves wrote
    bpc,     \* badge generator: position in the script
    bimg,    \* badge generator: the canvas `img`
    bfont,   \* badge generator: the loaded `font` object
    bexc,    \* badge generator: the exception `e` caught by the handler
    bout,    \* badge generator: lines printed by the current run
    blog,    \* badge generator: steps taken by the current run
    bruns,   \* badge generator: number of runs started
    bhist    \* badge generator: what the last two completed saves wrote

envVars   == <<font, fs>>
treeVars  == <<tpc, timg, tout, tlog, truns, thist>>
badgeVars == <<bpc, bimg, bfont, bexc, bout, blog, bruns, bhist>>
vars == <<font, fs, tpc, timg, tout, tlog, truns, thist,
          bpc, bimg, bfont, bexc, bout, blog, bruns, bhist>>

\* Number of times each script is run.
MaxRuns == 2

----------------------------------------------------------------------------
\* Program constants

\* create_tree_icon.py
size == 1024
trunk_width == 80
trunk_height == 300
trunk_x == (size - trunk_width) \div 2
trunk_y == size - trunk_height - 100
center_x == size \div 2
center_y == trunk_y - 100

TreeBackground == "#f0f9ff"
TrunkColor     == "#8b4513"
canopy_color   == "#22c55e"
MiddleColor    == "#16a34a"
TopColor       == "#15803d"
output_path    == "apps/desktop/src-tauri/icons/icon.png"

\* create_icon.py
BadgeSize       == 1024
BadgeBackground == "#3b82f6"
BadgeFontPath   == "/System/Library/Fonts/Helvetica.ttc"
BadgeFontSize   == 400
BadgeAnchor     == 512
BadgeOutputPath == "icon.png"
FallbackLo      == 262
FallbackHi      == 762

----------------------------------------------------------------------------
\* Canvas and drawing primitives (PIL Image / ImageDraw as the scripts use it)

NoImage == [kind |-> "none"]

\* Image.new('RGB', (w, h), color)
NewImage(w, h, color) ==
    [kind |-> "image", mode |-> "RGB", w |-> w, h |-> h, bg |-> color, shapes |-> <<>>]

Rectangle(box, fill) == [kind |-> "rectangle", box |-> box, fill |-> fill]

Ellipse(box, fill) == [kind |-> "ellipse", box |-> box, fill |-> fill]

\* d.text(xy, text, fill, anchor, font): the glyph's pixels are a function of
\* the font file and are not known here; they lie within one font size of xy.
Text(xy, text, fill, anchor, f) ==
    [kind |-> "text", xy |-> xy, text |-> text, fill |-> fill, anchor |-> anchor,
     font |-> f,
     box |-> <<xy[1] - f.size, xy[2] - f.size, xy[1] + f.size, xy[2] + f.size>>]

Paint(img, shape) == [img EXCEPT !.shapes = Append(@, shape)]

RECURSIVE GCD(_, _)
GCD(a, b) == IF b = 0 THEN a ELSE GCD(b, a % b)

InBox(box, x, y) == /\ box[1] <= x /\ x <= box[3]
                    /\ box[2] <= y /\ y <= box[4]

\* (x, y) lies in the ellipse inscribed in box:
\*   ((2x - x0 - x1)/w)^2 + ((2y - y0 - y1)/h)^2 <= 1,  w = x1 - x0, h = y1 - y0,
\* with both sides divided by GCD(w, h)^2 to keep the products small.  Which
\* pixels on the outline itself are painted depends on the rasteriser; the
\* properties below only read pixels well away from an outline.
InEllipse(box, x, y) ==
    LET w  == box[3] - box[1]
        h  == box[4] - box[2]
        g  == GCD(w, h)
        hw == w \div g
        hh == h \div g
        dx == 2 * x - box[1] - box[3]
        dy == 2 * y - box[2] - box[4]
    IN  /\ InBox(box, x, y)
        /\ w > 0 /\ h > 0
        /\ dx * dx * hh * hh + dy * dy * hw * hw <= w * w * hh * hh

\* The shape certainly paints (x, y).
Covers(shape, x, y) ==
    CASE shape.kind = "rectangle" -> InBox(shape.box, x, y)
      [] shape.kind = "ellipse"   -> InEllipse(shape.box, x, y)
      [] OTHER                    -> FALSE

\* The shape may paint (x, y): the pixels of a glyph are not determined here.
MayCover(shape, x, y) ==
    shape.kind = "text" /\ InBox(shape.box, x, y)

\* The colours the pixel (x, y) can have after the first k shapes are painted:
\* the last shape painted over a pixel decides it.
RECURSIVE ColoursAfter(_, _, _, _)
ColoursAfter(img, k, x, y) ==
    IF k = 0 THEN {img.bg}
    ELSE IF Covers(img.shapes[k], x, y) THEN {img.shapes[k].fill}
    ELSE IF MayCover(img.shapes[k], x, y)
         THEN {img.shapes[k].fill} \cup ColoursAfter(img, k - 1, x, y)
    ELSE ColoursAfter(img, k - 1, x, y)

PixelColours(img, x, y) == ColoursAfter(img, Len(img.shapes), x, y)

----------------------------------------------------------------------------
\* Environment: the font resource and the file system

\* "missing": ImageFont.truetype raises; "unrenderable": the font loads but
\* d.text raises; "helvetica_a", "helvetica_b": two usable contents of the file.
FontStates == {"missing", "unrenderable", "helvetica_a", "helvetica_b"}

Paths == {output_path, BadgeOutputPath}

Absent  == [kind |-> "absent"]
Partial == [kind |-> "partial"]
Png(img) == [kind |-> "png", w |-> img.w, h |-> img.h, mode |-> img.mode, img |-> img]

\* A file left at an output path by something else.
StalePng == Png(Paint(NewImage(16, 16, "#000000"), Rectangle(<<0, 0, 7, 7>>, "white")))

\* Mutant: the save opens the file for exclusive creation and keeps a file
\* that is already there.
SaveOk_KeepExisting(files, path, img) ==
    IF files[path] = Absent THEN [files EXCEPT ![path] = Png(img)] ELSE files

\* img.save(path): on success the file is replaced by the encoded canvas.
SaveOk(files, path, img) == [files EXCEPT ![path] = Png(img)]

\* img.save(path) raising: the file is untouched (open failed) or truncated.
SaveFailed(files, path) == {files, [files EXCEPT ![path] = Partial]}

----------------------------------------------------------------------------
\* Tree generator: create_tree_icon.py

TrunkShape ==
    Rectangle(<<trunk_x, trunk_y, trunk_x + trunk_width, trunk_y + trunk_height>>,
              TrunkColor)

\* Mutant: the bottom circle centred on the canopy centre, clear of the trunk's
\* lower part.
BottomCircle_Raised ==
    Ellipse(<<center_x - 250, center_y - 250, center_x + 250, center_y + 250>>,
            canopy_color)

\* Mutant: a radius of 750 instead of 250, reaching the canvas corners.
BottomCircle_Oversized ==
    Ellipse(<<center_x - 750, center_y - 50, center_x + 750, center_y + 1450>>,
            canopy_color)

BottomCircle ==
    Ellipse(<<center_x - 250, center_y - 50, center_x + 250, center_y + 450>>,
            canopy_color)

\* Mutant: the right edge 20 pixels short, off the trunk's axis.
MiddleCircle_OffAxis ==
    Ellipse(<<center_x - 220, center_y - 150, center_x + 200, center_y + 300>>,
            MiddleColor)

MiddleCircle ==
    Ellipse(<<center_x - 220, center_y - 150, center_x + 220, center_y + 300>>,
            MiddleColor)

\* Mutant: the top circle drawn wholly above the canopy centre.
TopCircle_TooHigh ==
    Ellipse(<<center_x - 180, center_y - 420, center_x + 180, center_y - 20>>,
            TopColor)

TopCircle ==
    Ellipse(<<center_x - 180, center_y - 220, center_x + 180, center_y + 180>>,
            TopColor)

TreeCreatedLine == <<"Tree icon created: ", output_path>>
TreeHintLine    == <<"  Run \"pnpm tauri icon apps/desktop/src-tauri/icons/icon.png\" to generate all sizes">>

\* The script is started: img = Image.new('RGB', (size, size), '#f0f9ff').
TreeStart ==
    /\ tpc \in {"idle", "done", "error"}
    /\ truns < MaxRuns
    /\ truns' = truns + 1
    /\ timg' = NewImage(size, size, TreeBackground)
    /\ tout' = <<>>
    /\ tlog' = <<"Start">>
    /\ tpc' = "trunk"
    /\ UNCHANGED <<thist, envVars, badgeVars>>

\* A draw statement of the tree script: at `at`, paint `shape`, go to `next`.
TreeDraw(at, shape, next) ==
    /\ tpc = at
    /\ timg' = Paint(timg, shape)
    /\ tlog' = Append(tlog, "Draw")
    /\ tpc' = next
    /\ UNCHANGED <<tout, truns, thist, envVars, badgeVars>>

TreeTrunk  == TreeDraw("trunk", TrunkShape, "bottom")
TreeBottom == TreeDraw("bottom", BottomCircle, "middle")
TreeMiddle == TreeDraw("middle", MiddleCircle, "top")
TreeTop    == TreeDraw("top", TopCircle, "save")

\* The record of the completed saves, the last two kept.
Remember(hist, entry) ==
    IF Len(hist) < 2 THEN Append(hist, entry) ELSE <<hist[2], entry>>

\* img.save(output_path) returns.
TreeSaveOk ==
    /\ tpc = "save"
    /\ fs' = SaveOk(fs, output_path, timg)
    /\ thist' = Remember(thist, [run |-> truns, file |-> fs'[output_path]])
    /\ tlog' = Append(tlog, "Write")
    /\ tpc' = "print1"
    /\ UNCHANGED <<font, timg, tout, truns, badgeVars>>

\* Mutant: the failure of the save is swallowed and the script goes on.
TreeSaveFails_Swallowed ==
    /\ tpc = "save"
    /\ fs' \in SaveFailed(fs, output_path)
    /\ tlog' = Append(tlog, "WriteFailed")
    /\ tpc' = "print1"
    /\ UNCHANGED <<font, timg, tout, truns, thist, badgeVars>>

\* img.save(output_path) raises: nothing catches it, the script ends.
TreeSaveFails ==
    /\ tpc = "save"
    /\ fs' \in SaveFailed(fs, output_path)
    /\ tlog' = Append(tlog, "WriteFailed")
    /\ tpc' = "error"
    /\ UNCHANGED <<font, timg, tout, truns, thist, badgeVars>>

TreePrint1 ==
    /\ tpc = "print1"
    /\ tout' = Append(tout, TreeCreatedLine)
    /\ tlog' = Append(tlog, "Report")
    /\ tpc' = "print2"
    /\ UNCHANGED <<timg, truns, thist, envVars, badgeVars>>

TreePrint2 ==
    /\ tpc = "print2"
    /\ tout' = Append(tout, TreeHintLine)
    /\ tlog' = Append(tlog, "Report")
    /\ tpc' = "done"
    /\ UNCHANGED <<timg, truns, thist, envVars, badgeVars>>

TreeNext ==
    \/ TreeStart \/ TreeTrunk \/ TreeBottom \/ TreeMiddle \/ TreeTop
    \/ TreeSaveOk \/ TreeSaveFails \/ TreePrint1 \/ TreePrint2

----------------------------------------------------------------------------
\* Badge generator: apps/desktop/src-tauri/icons/create_icon.py

NoFont == [kind |-> "none"]
NoExc  == "none"

\* ImageFont.truetype(path, size) on a loadable file
TrueType(path, file, sz) == [kind |-> "font", path |-> path, file |-> file, size |-> sz]

GlyphText ==
    Text(<<BadgeAnchor, BadgeAnchor>>, "A", "white", "mm", bfont)

FallbackCircle ==
    Ellipse(<<FallbackLo, FallbackLo, FallbackHi, FallbackHi>>, "white")

FontFailureLine(e) == <<"Could not load font: ", e>>
IconCreatedLine    == <<"Icon created: ", BadgeOutputPath>>

\* The script is started: img = Image.new('RGB', (1024, 1024), color='#3b82f6').
BadgeStart ==
    /\ bpc \in {"idle", "done", "error"}
    /\ bruns < MaxRuns
    /\ bruns' = bruns + 1
    /\ bimg' = NewImage(BadgeSize, BadgeSize, BadgeBackground)
    /\ bfont' = NoFont
    /\ bexc' = NoExc
    /\ bout' = <<>>
    /\ blog' = <<"Start">>
    /\ bpc' = "truetype"
    /\ UNCHANGED <<bhist, envVars, treeVars>>

\* font = ImageFont.truetype(...) returns.
BadgeLoadFont ==
    /\ bpc = "truetype"
    /\ font # "missing"
    /\ bfont' = TrueType(BadgeFontPath, font, BadgeFontSize)
    /\ bpc' = "text"
    /\ UNCHANGED <<bimg, bexc, bout, blog, bruns, bhist, envVars, treeVars>>

\* font = ImageFont.truetype(...) raises: control goes to the except clause.
BadgeLoadFontRaises ==
    /\ bpc = "truetype"
    /\ font = "missing"
    /\ bexc' = "cannot open resource"
    /\ bpc' = "except"
    /\ UNCHANGED <<bimg, bfont, bout, blog, bruns, bhist, envVars, treeVars>>

\* d.text(...) returns: the glyph is painted.
BadgeText ==
    /\ bpc = "text"
    /\ bfont.file # "unrenderable"
    /\ bimg' = Paint(bimg, GlyphText)
    /\ blog' = Append(blog, "Draw")
    /\ bpc' = "save"
    /\ UNCHANGED <<bfont, bexc, bout, bruns, bhist, envVars, treeVars>>

\* Mutant: the handler does not catch what d.text raises; the script ends.
BadgeTextRaises_Uncaught ==
    /\ bpc = "text"
    /\ bfont.file = "unrenderable"
    /\ bexc' = "cannot render glyph"
    /\ bpc' = "error"
    /\ UNCHANGED <<bimg, bfont, bout, blog, bruns, bhist, envVars, treeVars>>

\* d.text(...) raises before anything is painted.
BadgeTextRaises ==
    /\ bpc = "text"
    /\ bfont.file = "unrenderable"
    /\ bexc' = "cannot render glyph"
    /\ bpc' = "except"
    /\ UNCHANGED <<bimg, bfont, bout, blog, bruns, bhist, envVars, treeVars>>

\* Mutant: the handler prints nothing.
BadgeDiag_Silent ==
    /\ bpc = "except"
    /\ blog' = Append(blog, "Diag")
    /\ bpc' = "fallback"
    /\ UNCHANGED <<bimg, bfont, bexc, bout, bruns, bhist, envVars, treeVars>>

\* Mutant: the handler prints and leaves without drawing the fallback.
BadgeDiag_SkipsFallback ==
    /\ bpc = "except"
    /\ bout' = Append(bout, <<"Could not load font: ", bexc>>)
    /\ blog' = Append(blog, "Diag")
    /\ bpc' = "save"
    /\ UNCHANGED <<bimg, bfont, bexc, bruns, bhist, envVars, treeVars>>

\* print(f"Could not load font: {e}")
BadgeDiag ==
    /\ bpc = "except"
    /\ bout' = Append(bout, FontFailureLine(bexc))
    /\ blog' = Append(blog, "Diag")
    /\ bpc' = "fallback"
    /\ UNCHANGED <<bimg, bfont, bexc, bruns, bhist, envVars, treeVars>>

\* d.ellipse([262, 262, 762, 762], fill='white')
BadgeFallback ==
    /\ bpc = "fallback"
    /\ bimg' = Paint(bimg, FallbackCircle)
    /\ blog' = Append(blog, "Draw")
    /\ bpc' = "save"
    /\ UNCHANGED <<bfont, bexc, bout, bruns, bhist, envVars, treeVars>>

\* The font resource as the run saw it.
SeenFont == IF bfont = NoFont THEN "missing" ELSE bfont.file

\* img.save('icon.png') returns.
BadgeSaveOk ==
    /\ bpc = "save"
    /\ fs' = SaveOk(fs, BadgeOutputPath, bimg)
    /\ bhist' = Remember(bhist, [run |-> bruns, font |-> SeenFont,
                                 file |-> fs'[BadgeOutputPath]])
    /\ blog' = Append(blog, "Write")
    /\ bpc' = "report"
    /\ UNCHANGED <<font, bimg, bfont, bexc, bout, bruns, treeVars>>

\* img.save('icon.png') raises: nothing catches it, the script ends.
BadgeSaveFails ==
    /\ bpc = "save"
    /\ fs' \in SaveFailed(fs, BadgeOutputPath)
    /\ blog' = Append(blog, "WriteFailed")
    /\ bpc' = "error"
    /\ UNCHANGED <<font, bimg, bfont, bexc, bout, bruns, bhist, treeVars>>

BadgeReport ==
    /\ bpc = "report"
    /\ bout' = Append(bout, IconCreatedLine)
    /\ blog' = Append(blog, "Report")
    /\ bpc' = "done"
    /\ UNCHANGED <<bimg, bfont, bexc, bruns, bhist, envVars, treeVars>>

BadgeNext ==
    \/ BadgeStart \/ BadgeLoadFont \/ BadgeLoadFontRaises \/ BadgeText
    \/ BadgeTextRaises \/ BadgeDiag \/ BadgeFallback
    \/ BadgeSaveOk \/ BadgeSaveFails \/ BadgeReport

----------------------------------------------------------------------------
\* The font file is installed, removed or replaced.  Only ImageFont.truetype
\* reads it, so a change during a run of the badge script shows exactly as the
\* same change made after that run: changes are taken between runs.
EnvFontChange ==
    /\ bpc \in {"idle", "done", "error"}
    /\ font' \in FontStates \ {font}
    /\ UNCHANGED <<fs, treeVars, badgeVars>>

Init ==
    /\ font \in FontStates
    /\ fs \in [Paths -> {Absent, StalePng}]
    /\ tpc = "idle" /\ timg = NoImage /\ tout = <<>> /\ tlog = <<>>
    /\ truns = 0 /\ thist = <<>>
    /\ bpc = "idle" /\ bimg = NoImage /\ bfont = NoFont /\ bexc = NoExc
    /\ bout = <<>> /\ blog = <<>> /\ bruns = 0 /\ bhist = <<>>

Next == TreeNext \/ BadgeNext \/ EnvFontChange

Spec == Init /\ [][Next]_vars

\* A started script runs each statement to completion.
FairSpec == Spec /\ WF_vars(TreeNext) /\ WF_vars(BadgeNext)

\* The tree generator run on its own.
TreeSpec == Init /\ [][TreeNext]_vars

----------------------------------------------------------------------------
\* Properties

Range(s) == {s[i] : i \in DOMAIN s}

\* All drawing statements of the tree script have run: the image is final.
TreeFinal == tpc \in {"save", "print1", "print2", "done", "error"}

\* All drawing statements of the badge script have run.
BadgeFinal == bpc \in {"save", "report", "done", "error"}

\* The try block of the badge script raised.
FontFailed == bexc # NoExc

\* C1: in the tree generator's final image the pixel (512, 874), at the
\* horizontal centre and 150 pixels above the bottom edge, has the trunk
\* colour #8b4513.
C1_TrunkVisibleAtBottomCentre ==
    TreeFinal => PixelColours(timg, 512, 874) = {"#8b4513"}

\* C2: in the tree generator's final image the pixel at the canopy centre
\* (512, 524) has the colour #15803d of the innermost ellipse, which contains
\* the point and is the last shape drawn.
C2_CanopyCentreIsInnermostColour ==
    TreeFinal =>
        /\ center_x = 512 /\ center_y = 524
        /\ PixelColours(timg, 512, 524) = {"#15803d"}
        /\ LET last == timg.shapes[Len(timg.shapes)]
           IN  /\ last.kind = "ellipse"
               /\ last.fill = "#15803d"
               /\ Covers(last, 512, 524)

C2_Witness == tpc = "done" /\ PixelColours(timg, 512, 524) = {"#15803d"}

Corners == {<<0, 0>>, <<1023, 0>>, <<0, 1023>>, <<1023, 1023>>}

C4_FontFailureFallsBack ==
    /\ FontFailed => bpc \in {"except", "fallback", "save", "report", "done", "error"}
    /\ (FontFailed /\ bpc = "error") => blog[Len(blog)] = "WriteFailed"
    /\ (FontFailed /\ BadgeFinal) =>
        /\ bout[1] = <<"Could not load font: ", bexc>>
        /\ bimg.bg = "#3b82f6"
        /\ bimg.shapes = <<[kind |-> "ellipse", box |-> <<262, 262, 762, 762>>,
                            fill |-> "white"]>>
        /\ PixelColours(bimg, 512, 512) = {"white"}
        /\ \A q \in {<<300, 512>>, <<724, 512>>, <<512, 300>>, <<512, 724>>} :
              PixelColours(bimg, q[1], q[2]) = {"white"}
        /\ \A c \in Corners \cup {<<0, 512>>, <<512, 0>>, <<1023, 512>>, <<512, 1023>>} :
              PixelColours(bimg, c[1], c[2]) = {"#3b82f6"}

C4_Witness ==
    /\ FontFailed
    /\ bpc = "report"
    /\ fs[BadgeOutputPath] = Png(bimg)
    /\ PixelColours(bimg, 512, 512) = {"white"}

\* C5: both generators are idempotent: two runs in succession under the same
\* external state write the same image, and after a successful save the file
\* holds the canvas of that run whatever the file held before.
C5_Idempotent ==
    /\ \A i, j \in DOMAIN thist :
          thist[j].run = thist[i].run + 1 => thist[j].file = thist[i].file
    /\ \A i, j \in DOMAIN bhist :
          (bhist[j].run = bhist[i].run + 1 /\ bhist[j].font = bhist[i].font)
              => bhist[j].file = bhist[i].file
    /\ tpc \in {"print1", "print2", "done"} =>
          /\ fs[output_path] = Png(timg)
          /\ thist[Len(thist)].file = Png(timg)
    /\ bpc \in {"report", "done"} =>
          /\ fs[BadgeOutputPath] = Png(bimg)
          /\ bhist[Len(bhist)].file = Png(bimg)

C5_Witness ==
    /\ Len(thist) = 2 /\ thist[2].run = thist[1].run + 1
    /\ Len(bhist) = 2 /\ bhist[2].run = bhist[1].run + 1
    /\ bhist[1].font = "helvetica_a" /\ bhist[2].font = "helvetica_a"
    /\ tpc = "done" /\ bpc = "done"

Count(s, e) == Cardinality({i \in DOMAIN s : s[i] = e})

C6_ErrorState ==
    /\ Count(tlog, "WriteFailed") > 0 => tpc = "error"
    /\ Count(blog, "WriteFailed") > 0 => bpc = "error"
    /\ tpc = "error" =>
          /\ tlog[Len(tlog)] = "WriteFailed"
          /\ Count(tlog, "WriteFailed") = 1 /\ Count(tlog, "Write") = 0
          /\ Count(tlog, "Report") = 0
          /\ tout = <<>>
    /\ bpc = "error" =>
          /\ blog[Len(blog)] = "WriteFailed"
          /\ Count(blog, "WriteFailed") = 1 /\ Count(blog, "Write") = 0
          /\ Count(blog, "Report") = 0
          /\ <<"Icon created: ", "icon.png">> \notin Range(bout)

C6_ErrorStep ==
    /\ tpc = "error" =>
          \/ /\ tpc' = "error"
             /\ UNCHANGED <<timg, tout, tlog, truns>>
             /\ fs'[output_path] = fs[output_path]
          \/ truns' = truns + 1
    /\ bpc = "error" =>
          \/ /\ bpc' = "error"
             /\ UNCHANGED <<bimg, bout, blog, bruns>>
             /\ fs'[BadgeOutputPath] = fs[BadgeOutputPath]
          \/ bruns' = bruns + 1

\* C6: in both generators a failed write is not recovered: the run ends in
\* the error state at the save, with one save attempt and no report, and
\* from there the run takes no further step (no retry, no cleanup of the
\* file, no success report); only a new run leaves the state.
C6_WriteFailureIsTerminal == [](C6_ErrorState) /\ [][C6_ErrorStep]_vars

C6_Witness == tpc = "error" /\ bpc = "error" /\ FontFailed

\* C7: every run of the badge generator emits one or two lines: the success
\* message in every run, the diagnostic line iff the font step failed.
C7_SuccessLineInEveryRun ==
    bpc \in {"done", "error"} =>
        /\ Len(bout) \in {1, 2}
        /\ <<"Icon created: ", "icon.png">> \in Range(bout)
        /\ (\E i \in DOMAIN bout : bout[i][1] = "Could not load font: ") <=> FontFailed

\* C7, amended: a run whose write succeeds emits one or two lines, the
\* success message once and last, the diagnostic line (first) iff the font
\* step failed; a run whose write fails emits no success message, only the
\* diagnostic line if the font step failed.
C7_OutputLines ==
    LET diag == {i \in DOMAIN bout : bout[i][1] = "Could not load font: "}
        succ == {i \in DOMAIN bout : bout[i] = <<"Icon created: ", "icon.png">>}
    IN  /\ bpc = "done" =>
              /\ Len(bout) = IF FontFailed THEN 2 ELSE 1
              /\ succ = {Len(bout)}
              /\ diag = IF FontFailed THEN {1} ELSE {}
        /\ bpc = "error" =>
              /\ Len(bout) = IF FontFailed THEN 1 ELSE 0
              /\ succ = {}
              /\ diag = IF FontFailed THEN {1} ELSE {}

C7_Witness == bpc = "done" /\ FontFailed /\ Len(bout) = 2

IsPrefix(s, t) == Len(s) <= Len(t) /\ SubSeq(t, 1, Len(s)) = s

TreeSteps == <<"Start", "Draw", "Draw", "Draw", "Draw", "Write", "Report", "Report">>

BadgeSteps ==
    IF FontFailed THEN <<"Start", "Diag", "Draw", "Write", "Report">>
    ELSE <<"Start", "Draw", "Write", "Report">>

C8_Order ==
    /\ (tpc # "idle" /\ tpc # "error") => IsPrefix(tlog, TreeSteps)
    /\ tpc = "done" => tlog = TreeSteps
    /\ (bpc # "idle" /\ bpc # "error") => IsPrefix(blog, BadgeSteps)
    /\ bpc = "done" => blog = BadgeSteps

C8_DoneStep ==
    /\ tpc = "done" => (tpc' = "done" /\ tlog' = tlog) \/ truns' = truns + 1
    /\ bpc = "done" => (bpc' = "done" /\ blog' = blog) \/ bruns' = bruns + 1

\* C8: each generator is the linear sequence Start, Draw, Write, Report,
\* branching only at the badge's font try/fallback: the steps of a run whose
\* write does not fail occur in that order (the diagnostic before the
\* fallback draw and the write), every started run ends, after the report or
\* at a failed write, and a finished run takes no further step.
C8_LinearSequence ==
    /\ [](C8_Order)
    /\ [][C8_DoneStep]_vars
    /\ (tpc = "trunk") ~> (tpc \in {"done", "error"})
    /\ (bpc = "truetype") ~> (bpc \in {"done", "error"})

C8_Witness ==
    /\ tpc = "done" /\ tlog = TreeSteps
    /\ bpc = "done" /\ FontFailed /\ blog = BadgeSteps

\* Twice the centre of a bounding box.
Centre2(box) == <<box[1] + box[3], box[2] + box[4]>>

Area(box) == (box[3] - box[1]) * (box[4] - box[2])

Canopy == SubSeq(timg.shapes, 2, 4)

\* C9: the three canopy ellipses are concentric around the canopy centre
\* (512, 524): each bounding box is centred there; they are drawn largest
\* first.
C9_Concentric ==
    TreeFinal =>
        /\ \A i \in 1..3 : Centre2(Canopy[i].box) = <<2 * 512, 2 * 524>>
        /\ Area(Canopy[1].box) > Area(Canopy[2].box)
        /\ Area(Canopy[2].box) > Area(Canopy[3].box)

\* C9, amended: the three canopy ellipses are centred on the vertical line
\* x = 512 through the canopy centre and each contains the canopy centre
\* (512, 524), but they are not concentric: their bounding boxes are centred
\* 200 below, 75 below and 20 above that point; they are drawn largest
\* first.
C9_SharedAxis ==
    TreeFinal =>
        /\ \A i \in 1..3 :
              /\ Canopy[i].kind = "ellipse"
              /\ Centre2(Canopy[i].box)[1] = 2 * 512
              /\ Covers(Canopy[i], 512, 524)
        /\ Centre2(Canopy[1].box)[2] = 2 * (524 + 200)
        /\ Centre2(Canopy[2].box)[2] = 2 * 524 + 150
        /\ Centre2(Canopy[3].box)[2] = 2 * (524 - 20)
        /\ Area(Canopy[1].box) > Area(Canopy[2].box)
        /\ Area(Canopy[2].box) > Area(Canopy[3].box)

C9_Witness == tpc = "done" /\ Len(timg.shapes) = 4 /\ Covers(Canopy[3], 512, 524)

TrunkPixels == (472 .. 552) \X (624 .. 924)

\* Every pixel of the rectangle [472,624]-[552,924] satisfies the inequality
\* of the ellipse inscribed in [262,474,762,974].
TrunkBoxInsideBottomEllipse ==
    \A p \in TrunkPixels : InEllipse(<<262, 474, 762, 974>>, p[1], p[2])

\* The image when the last draw statement has run.
C10_AtSave ==
    tpc = "save" =>
        /\ timg.shapes[1] = [kind |-> "rectangle", box |-> <<472, 624, 552, 924>>,
                             fill |-> "#8b4513"]
        /\ timg.shapes[2].kind = "ellipse"
        /\ timg.shapes[2].box = <<262, 474, 762, 974>>
        /\ \A k \in 2..Len(timg.shapes) : timg.shapes[k].fill # "#8b4513"
        /\ timg.bg # "#8b4513"
        /\ TrunkBoxInsideBottomEllipse
        /\ \A p \in TrunkPixels : "#8b4513" \notin PixelColours(timg, p[1], p[2])

\* From then on the run leaves the image as it is.
C10_ImageKept == (TreeFinal /\ truns' = truns) => (TreeFinal' /\ timg' = timg)

\* C10: every pixel of the trunk rectangle [472,624]-[552,924] lies inside
\* the bottom canopy ellipse (bounding box [262,474,762,974]), drawn after the
\* trunk, so no pixel of the final image (the image once the last shape is
\* drawn, which the rest of the run keeps) has the trunk colour #8b4513.
C10_TrunkOccluded == [](C10_AtSave) /\ [][C10_ImageKept]_vars

C10_Witness ==
    /\ tpc = "done"
    /\ Covers(timg.shapes[1], 512, 874)
    /\ PixelColours(timg, 512, 874) = {"#22c55e"}

====
